---- MODULE Spec2Model ----
(***************************************************************************)
(* Model of blog/models.py: the Post record, its save path (modified_time  *)
(* and excerpt recomputation), increase_views, the cached rich_content     *)
(* property, and the cascade rules of the category and author references.  *)
(*                                                                         *)
(* Text is a sequence of tokens.  Outside markup every token is exactly    *)
(* one character; markup is written "<", tag-interior tokens, ">", so that *)
(* strip_tags (which drops everything from "<" to the matching ">") and    *)
(* the [:54] slice count characters exactly as the code does.              *)
(*                                                                         *)
(* created_time and tags take part in no operation of the file and are     *)
(* left out of the record.                                                 *)
(***************************************************************************)
EXTENDS Naturals, Sequences, FiniteSets

\* ------------------------------------------------------------------ bounds
LongLen == 56
MaxClock == 2
MaxViews == 2
MaxPosts == 2

\* ------------------------------------------------------- program constants
ExcerptLen == 54

\* ------------------------------------------------------------ text helpers
Min(a, b) == IF a < b THEN a ELSE b

Rep(c, n) == [k \in 1 .. n |-> c]

\* s[:n]
Slice(s, n) == SubSeq(s, 1, Min(n, Len(s)))

\* index of the first occurrence of token c in s at or after position i, else 0
IndexFrom(s, c, i) ==
    LET hits == {k \in i .. Len(s) : s[k] = c} IN
    IF hits = {} THEN 0 ELSE CHOOSE k \in hits : \A j \in hits : k <= j

\* str.split("\n")
RECURSIVE SplitLines(_)
SplitLines(s) ==
    LET k == IndexFrom(s, "\n", 1) IN
    IF k = 0 THEN <<s>>
    ELSE <<SubSeq(s, 1, k - 1)>> \o SplitLines(SubSeq(s, k + 1, Len(s)))

\* TRUE iff pat occurs in s starting at position i
MatchAt(s, pat, i) ==
    /\ i >= 1
    /\ i + Len(pat) - 1 <= Len(s)
    /\ SubSeq(s, i, i + Len(pat) - 1) = pat

\* position just after the run of whitespace (\s*) that starts at i
RECURSIVE SkipSpace(_, _)
SkipSpace(s, i) ==
    IF i <= Len(s) /\ s[i] \in {" ", "\n"} THEN SkipSpace(s, i + 1) ELSE i

\* ------------------------------------------------------- markdown converter
\* Inputs on which md.convert raises (a source the converter cannot take as
\* text: Markdown.convert re-raises UnicodeDecodeError on one it cannot
\* decode); BadBody stands for one such input.
BadBody == <<"0xFF">>
Pathological == {BadBody}
ConverterRaises(value) == value \in Pathological

\* django.utils.text.slugify on the model's alphabet: lower-case, drop what is
\* neither alphanumeric, "-" nor whitespace, whitespace to "-".
SlugChar(c) ==
    CASE c = "H" -> <<"h">>
      [] c = " " -> <<"-">>
      [] c \in {"#", ">", "\n"} -> <<>>
      [] OTHER -> <<c>>

RECURSIVE slugify(_)
slugify(s) == IF s = <<>> THEN <<>> ELSE SlugChar(Head(s)) \o slugify(Tail(s))

IsHeading(line) == Len(line) >= 2 /\ line[1] = "#" /\ line[2] = " "
HeadingText(line) == SubSeq(line, 3, Len(line))

\* one block of output: an <h1> (with its anchor when the toc extension is
\* on) or a <p>
RenderBlock(line, withToc) ==
    IF IsHeading(line)
    THEN (IF withToc
          THEN <<"<", "h1 id=\"">> \o slugify(HeadingText(line)) \o <<"\"", ">">>
          ELSE <<"<", "h1", ">">>)
         \o HeadingText(line) \o <<"<", "/h1", ">">>
    ELSE <<"<", "p", ">">> \o line \o <<"<", "/p", ">">>

RECURSIVE RenderBlocks(_, _)
RenderBlocks(lines, withToc) ==
    IF lines = <<>> THEN <<>>
    ELSE IF Head(lines) = <<>> THEN RenderBlocks(Tail(lines), withToc)
    ELSE LET rest == RenderBlocks(Tail(lines), withToc) IN
         RenderBlock(Head(lines), withToc)
            \o (IF rest = <<>> THEN <<>> ELSE <<"\n">> \o rest)

\* md.convert(value): the HTML of the document
MdConvert(value, withToc) == RenderBlocks(SplitLines(value), withToc)

RECURSIVE TocItems(_)
TocItems(lines) ==
    IF lines = <<>> THEN <<>>
    ELSE (IF IsHeading(Head(lines))
          THEN <<"<", "li", ">", "<", "a href=\"#">>
                 \o slugify(HeadingText(Head(lines)))
                 \o <<"\"", ">">> \o HeadingText(Head(lines))
                 \o <<"<", "/a", ">", "<", "/li", ">", "\n">>
          ELSE <<>>)
         \o TocItems(Tail(lines))

TocOpen == <<"<", "div class=\"toc\"", ">">>
UlOpen == <<"<", "ul", ">">>
UlClose == <<"<", "/ul", ">">>
DivClose == <<"<", "/div", ">">>

\* md.toc: the side channel of the toc extension
MdToc(value) ==
    LET items == TocItems(SplitLines(value)) IN
    TocOpen \o <<"\n">> \o UlOpen
       \o (IF items = <<>> THEN <<>> ELSE <<"\n">> \o items)
       \o UlClose \o <<"\n">> \o DivClose \o <<"\n">>

\* re.search(r'<div class="toc">\s*<ul>(.*)</ul>\s*</div>', toc, re.S):
\* leftmost start, greedy group; <<group>> on a match, <<>> on none
TocSearch(html) ==
    LET Ends(g) == {e \in g .. Len(html) :
                      /\ MatchAt(html, UlClose, e)
                      /\ MatchAt(html, DivClose, SkipSpace(html, e + Len(UlClose)))}
        GroupStart(s) == SkipSpace(html, s + Len(TocOpen)) + Len(UlOpen)
        Starts == {s \in 1 .. Len(html) :
                      /\ MatchAt(html, TocOpen, s)
                      /\ MatchAt(html, UlOpen, SkipSpace(html, s + Len(TocOpen)))
                      /\ Ends(GroupStart(s)) # {}}
    IN  IF Starts = {} THEN <<>>
        ELSE LET s == CHOOSE x \in Starts : \A y \in Starts : x <= y
                 g == GroupStart(s)
                 e == CHOOSE x \in Ends(g) : \A y \in Ends(g) : y <= x
             IN  <<SubSeq(html, g, e - 1)>>

generate_rich_content(value) ==
    LET m == TocSearch(MdToc(value)) IN
    [content |-> MdConvert(value, TRUE),
     toc |-> IF m # <<>> THEN m[1] ELSE <<>>]

\* django.utils.html.strip_tags: drop everything from "<" to the next ">".
\* Position i is inside markup iff the last "<" at or before i has no ">"
\* between it and i.
InMarkup(s, i) ==
    LET opens == {j \in 1 .. i : s[j] = "<"} IN
    /\ opens # {}
    /\ LET j == CHOOSE x \in opens : \A y \in opens : y <= x
       IN  \A k \in j .. i - 1 : s[k] # ">"

\* the text of s[lo .. hi] that lies outside markup
RECURSIVE StripRange(_, _, _)
StripRange(s, lo, hi) ==
    IF lo > hi THEN <<>>
    ELSE IF lo = hi THEN (IF InMarkup(s, lo) THEN <<>> ELSE <<s[lo]>>)
    ELSE LET mid == (lo + hi) \div 2 IN
         StripRange(s, lo, mid) \o StripRange(s, mid + 1, hi)

strip_tags(html) == StripRange(html, 1, Len(html))

\* the excerpt without the [:54] slice
ExcerptUncut(body) == strip_tags(MdConvert(body, FALSE))

\* strip_tags(md.convert(self.body))[:54]
Excerpt(body) == Slice(strip_tags(MdConvert(body, FALSE)), ExcerptLen)

\* ------------------------------------------------------------ input domains
PlainBody == <<"a", "b">>
LongBody == <<"#", " ", "H", "\n">> \o Rep("a", LongLen)
Bodies == {PlainBody, LongBody, BadBody}
Titles == {"t1", "t2"}
Categories == {"c1", "c2"}
Users == {"u1", "u2"}
CallerExcerpts == {Rep("x", ExcerptLen + 1)}
Instances == {1, 2}
Pks == 1 .. MaxPosts

\* columns of the post table that save() can write
AllFields == {"title", "body", "modified_time", "excerpt", "category", "author", "views"}
\* values of the update_fields argument: <<>> is None, <<S>> a collection S
UpdateFieldsArgs ==
    {<<>>, <<{}>>, <<{"views"}>>, <<{"body"}>>, <<{"body", "excerpt", "modified_time"}>>}

\* -------------------------------------------------------------------- state
VARIABLES
    now,         \* timezone.now()
    categories,  \* stored Category rows
    users,       \* stored User rows
    db,          \* stored Post rows, by primary key
    nextPk,      \* next primary key the store hands out
    inst,        \* loaded Post instances, by slot
    last         \* outcome of the last call into the store or a Post method

vars == <<now, categories, users, db, nextPk, inst, last>>

Outcome(op, i, status, ret) == [op |-> op, i |-> i, status |-> status, ret |-> ret]

\* the column values of an instance
Row(self) ==
    [title |-> self.title, body |-> self.body, modified_time |-> self.modified_time,
     excerpt |-> self.excerpt, category |-> self.category, author |-> self.author,
     views |-> self.views]

\* an instance as the manager builds it from a stored row; fresh holds until
\* the first assignment to, read of or call on the instance
FromRow(pk, row) ==
    [pk |-> pk, title |-> row.title, body |-> row.body,
     modified_time |-> row.modified_time, excerpt |-> row.excerpt,
     category |-> row.category, author |-> row.author, views |-> row.views,
     rich_content |-> <<>>, fresh |-> TRUE]

Put(f, k, v) == [x \in (DOMAIN f) \cup {k} |-> IF x = k THEN v ELSE f[x]]
Drop(f, ks) == [x \in (DOMAIN f) \ ks |-> f[x]]

Init ==
    /\ now = 1
    /\ categories = Categories
    /\ users = Users
    /\ db = <<>>
    /\ nextPk = 1
    /\ inst = <<>>
    /\ last = Outcome("init", 0, "ok", <<>>)

\* ----------------------------------------------------------------- Post.save
\* a save that keeps the modified_time the instance already carries
StampModifiedKeep(self, t) == self

\* self.modified_time = timezone.now()
StampModified(self, t) == [self EXCEPT !.modified_time = t]

\* Excerpt and generate_rich_content tabulated over the bodies of the model
\* (evaluated once instead of at every call)
ExcerptOf == [b \in Bodies \ Pathological |-> Excerpt(b)]
RichContentOf == [b \in Bodies \ Pathological |-> generate_rich_content(b)]

\* self.excerpt = strip_tags(md.convert(self.body))[:54]
SetExcerptFromBody(self) == [self EXCEPT !.excerpt = ExcerptOf[self.body]]

\* a save that ignores update_fields and writes every column
WrittenFieldsAll(update_fields) == AllFields

\* the columns super().save(*args, **kwargs) writes on an UPDATE
WrittenFields(update_fields) ==
    IF update_fields = <<>> THEN AllFields ELSE update_fields[1]

\* the stored row after an UPDATE of the columns in fields
UpdateRow(old, self, fields) ==
    [f \in DOMAIN old |-> IF f \in fields THEN Row(self)[f] ELSE old[f]]

\* the references among the columns in fields are satisfied by the store
WrittenReferencesExist(self, fields) ==
    /\ "category" \in fields => self.category \in categories
    /\ "author" \in fields => self.author \in users

\* models.Model.save: status and stored rows after super().save on self.
\* An empty update_fields returns at once; otherwise the row is updated, and
\* inserted when there is none to update and update_fields is None.
SuperSave(self, update_fields) ==
    IF update_fields = <<{}>>
    THEN [status |-> "skipped", rows |-> db]
    ELSE IF self.pk \in DOMAIN db
    THEN (IF WrittenReferencesExist(self, WrittenFields(update_fields))
          THEN [status |-> "saved",
                rows |-> [db EXCEPT ![self.pk] =
                             UpdateRow(@, self, WrittenFields(update_fields))]]
          ELSE [status |-> "IntegrityError", rows |-> db])
    ELSE IF update_fields # <<>>
    THEN [status |-> "DatabaseError", rows |-> db]   \* no row was updated
    ELSE IF WrittenReferencesExist(self, AllFields)
    THEN [status |-> "saved", rows |-> Put(db, self.pk, Row(self))]
    ELSE [status |-> "IntegrityError", rows |-> db]  \* foreign key violation

\* Post.save(self, update_fields=...) on the instance in slot i whose
\* in-memory value at the call is self
save(i, self, update_fields, op) ==
    LET s1 == StampModified([self EXCEPT !.fresh = FALSE], now) IN
    IF ConverterRaises(s1.body)
    THEN /\ inst' = [inst EXCEPT ![i] = s1]
         /\ db' = db
         /\ last' = Outcome(op, i, "ConverterError", <<>>)
    ELSE LET s2 == SetExcerptFromBody(s1)
             r == SuperSave(s2, update_fields)
         IN  /\ inst' = [inst EXCEPT ![i] = s2]
             /\ db' = r.rows
             /\ last' = Outcome(op, i, r.status, <<>>)

Save(i, update_fields) ==
    /\ i \in DOMAIN inst
    /\ save(i, inst[i], update_fields, "save")
    /\ UNCHANGED <<now, categories, users, nextPk>>

\* Post.increase_views
increase_views(i) ==
    /\ i \in DOMAIN inst
    /\ inst[i].views < MaxViews
    /\ save(i, [inst[i] EXCEPT !.views = @ + 1], <<{"views"}>>, "increase_views")
    /\ UNCHANGED <<now, categories, users, nextPk>>

\* Post.objects.create(title=, body=, category=, author=): construct with the
\* field defaults, then save()
CreatePost(i, title, body, category, author) ==
    /\ nextPk <= MaxPosts
    /\ LET self == [pk |-> nextPk, title |-> title, body |-> body,
                    modified_time |-> 0, excerpt |-> <<>>,
                    category |-> category, author |-> author, views |-> 0,
                    rich_content |-> <<>>, fresh |-> FALSE]
           s2 == SetExcerptFromBody(StampModified(self, now))
       IN  IF ConverterRaises(body)
           THEN /\ last' = Outcome("create", i, "ConverterError", <<>>)
                /\ UNCHANGED <<db, nextPk, inst>>
           ELSE IF ~WrittenReferencesExist(self, AllFields)
           THEN /\ last' = Outcome("create", i, "IntegrityError", <<>>)
                /\ UNCHANGED <<db, nextPk, inst>>
           ELSE /\ db' = Put(db, nextPk, Row(s2))
                /\ inst' = Put(inst, i, s2)
                /\ nextPk' = nextPk + 1
                /\ last' = Outcome("create", i, "saved", <<>>)
    /\ UNCHANGED <<now, categories, users>>

\* Post.objects.get(pk=pk): a fresh instance in slot i
Load(i, pk) ==
    /\ pk \in DOMAIN db
    /\ inst' = Put(inst, i, FromRow(pk, db[pk]))
    /\ UNCHANGED <<now, categories, users, db, nextPk, last>>

\* attribute assignments by the caller
Assign(i, field, value) ==
    /\ i \in DOMAIN inst
    /\ inst[i][field] # value
    /\ inst' = [inst EXCEPT ![i] = [@ EXCEPT ![field] = value, !.fresh = FALSE]]
    /\ UNCHANGED <<now, categories, users, db, nextPk, last>>

SetTitle(i, title) == Assign(i, "title", title)
SetBody(i, body) == Assign(i, "body", body)
SetExcerpt(i, excerpt) == Assign(i, "excerpt", excerpt)
SetModifiedTime(i, t) == Assign(i, "modified_time", t)
SetCategory(i, c) == Assign(i, "category", c)
SetAuthor(i, u) == Assign(i, "author", u)

\* ------------------------------------------------------ cached rich_content
\* a plain property: rendered again at every read (empty where the converter
\* fails)
rich_content_uncached(self) ==
    IF ConverterRaises(self.body) THEN [content |-> <<>>, toc |-> <<>>]
    ELSE RichContentOf[self.body]

\* a cache kept per post instead of per instance
rich_content_shared(self) ==
    LET holders == {j \in DOMAIN inst :
                      inst[j].pk = self.pk /\ inst[j].rich_content # <<>>}
    IN  IF holders # {} THEN inst[CHOOSE j \in holders : TRUE].rich_content[1]
        ELSE RichContentOf[self.body]

\* @cached_property rich_content: the value the read yields (and leaves in
\* the instance's __dict__)
rich_content(self) ==
    IF self.rich_content # <<>> THEN self.rich_content[1]
    ELSE RichContentOf[self.body]

\* Post.toc / Post.body_html: self.rich_content.get(key, "")
ReadDerived(i, op, key) ==
    /\ i \in DOMAIN inst
    /\ IF inst[i].rich_content = <<>> /\ ConverterRaises(inst[i].body)
       THEN /\ inst' = [inst EXCEPT ![i].fresh = FALSE]
            /\ last' = Outcome(op, i, "ConverterError", <<>>)
       ELSE LET rc == rich_content(inst[i]) IN
            /\ inst' = [inst EXCEPT ![i].rich_content = <<rc>>, ![i].fresh = FALSE]
            /\ last' = Outcome(op, i, "ok", rc[key])
    /\ UNCHANGED <<now, categories, users, db, nextPk>>

toc(i) == ReadDerived(i, "toc", "toc")
body_html(i) == ReadDerived(i, "body_html", "content")

\* ------------------------------------------------------------------ deletes
\* a reference without cascade: the referring rows stay
CascadeNone(rows, field, key) == rows

\* on_delete=models.CASCADE: the rows that survive the deletion of the
\* referenced record key
Cascade(rows, field, key) ==
    Drop(rows, {p \in DOMAIN rows : rows[p][field] = key})

DeleteCategory(c) ==
    /\ c \in categories
    /\ categories' = categories \ {c}
    /\ db' = Cascade(db, "category", c)
    /\ last' = Outcome("delete_category", 0,
                       IF DOMAIN db' # DOMAIN db THEN "cascaded" ELSE "ok", <<>>)
    /\ UNCHANGED <<now, users, nextPk, inst>>

DeleteAuthor(u) ==
    /\ u \in users
    /\ users' = users \ {u}
    /\ db' = Cascade(db, "author", u)
    /\ last' = Outcome("delete_author", 0,
                       IF DOMAIN db' # DOMAIN db THEN "cascaded" ELSE "ok", <<>>)
    /\ UNCHANGED <<now, categories, nextPk, inst>>

DeletePost(pk) ==
    /\ pk \in DOMAIN db
    /\ db' = Drop(db, {pk})
    /\ last' = Outcome("delete_post", 0, "ok", <<>>)
    /\ UNCHANGED <<now, categories, users, nextPk, inst>>

Tick ==
    /\ now < MaxClock
    /\ now' = now + 1
    /\ UNCHANGED <<categories, users, db, nextPk, inst, last>>

\* Each specification is the program under one kind of client.  All of them
\* start from the empty store and use the operations defined above.

\* One request at a time: a single instance slot and the whole save API.
Next ==
    \/ Tick
    \/ \E t \in Titles, b \in Bodies : nextPk = 1 /\ CreatePost(1, t, b, "c1", "u1")
    \/ \E pk \in Pks : Load(1, pk)
    \/ \E t \in Titles : SetTitle(1, t)
    \/ \E b \in Bodies : SetBody(1, b)
    \/ \E e \in CallerExcerpts : SetExcerpt(1, e)
    \/ SetModifiedTime(1, 0)
    \/ \E uf \in UpdateFieldsArgs : Save(1, uf)
    \/ increase_views(1)
    \/ \E pk \in Pks : DeletePost(pk)

Spec == Init /\ [][Next]_vars

\* Two requests on the same post: each holds its own instance, loaded at a
\* time of its own.
NextConcurrent ==
    \/ Tick
    \/ \E i \in Instances : nextPk = 1 /\ CreatePost(i, "t1", PlainBody, "c1", "u1")
    \/ \E i \in Instances, pk \in Pks : Load(i, pk)
    \/ \E i \in Instances, t \in Titles : SetTitle(i, t)
    \/ \E i \in Instances, b \in Bodies \ Pathological : SetBody(i, b)
    \/ \E i \in Instances : Save(i, <<>>)
    \/ \E i \in Instances : increase_views(i)

SpecConcurrent == Init /\ [][NextConcurrent]_vars

\* Two instances that read the derived fields.
NextCache ==
    \/ \E i \in Instances, b \in Bodies \ Pathological :
          nextPk = 1 /\ CreatePost(i, "t1", b, "c1", "u1")
    \/ \E i \in Instances, pk \in Pks : Load(i, pk)
    \/ \E i \in Instances, b \in Bodies : SetBody(i, b)
    \/ \E i \in Instances : Save(i, <<>>)
    \/ \E i \in Instances : increase_views(i)
    \/ \E i \in Instances : toc(i)
    \/ \E i \in Instances : body_html(i)

SpecCache == Init /\ [][NextCache]_vars

\* Posts, categories and authors come and go.
NextStore ==
    \/ \E i \in Instances, c \in Categories, u \in Users :
          CreatePost(i, "t1", PlainBody, c, u)
    \/ \E i \in Instances, pk \in Pks : Load(i, pk)
    \/ \E i \in Instances, c \in Categories : SetCategory(i, c)
    \/ \E i \in Instances, u \in Users : SetAuthor(i, u)
    \/ \E i \in Instances, uf \in {<<>>, <<{"views"}>>} : Save(i, uf)
    \/ \E c \in Categories : DeleteCategory(c)
    \/ \E u \in Users : DeleteAuthor(u)
    \/ \E pk \in Pks : DeletePost(pk)

SpecStore == Init /\ [][NextStore]_vars

\* ------------------------------------------------------------------- claims
ContentFields == {"title", "body", "excerpt", "modified_time"}
SameContent(r1, r2) == \A f \in ContentFields : r1[f] = r2[f]
SaveCall(i) == (\E uf \in UpdateFieldsArgs : Save(i, uf)) \/ increase_views(i)
TocCall(i) == last'.op = "toc" /\ last'.i = i /\ toc(i)
BodyHtmlCall(i) == last'.op = "body_html" /\ last'.i = i /\ body_html(i)
ReadCall(i) == TocCall(i) \/ BodyHtmlCall(i)
Replaced(i) ==
    \/ \E pk \in Pks : Load(i, pk)
    \/ \E t \in Titles, b \in Bodies, c \in Categories, u \in Users :
          CreatePost(i, t, b, c, u)

\* C1: a completed increase_views call leaves views at v+1 and leaves title,
\* body, excerpt and modified_time of the instance and of its stored record
\* as they were before the call.
C1_IncreaseViewsFrame ==
    [][\A i \in Instances :
          (increase_views(i) /\ last'.status = "saved") =>
             /\ inst'[i].views = inst[i].views + 1
             /\ db'[inst[i].pk].views = inst[i].views + 1
             /\ SameContent(inst'[i], inst[i])
             /\ SameContent(db'[inst[i].pk], db[inst[i].pk])]_vars

\* C2: increase_views writes only the views column: whatever the calling
\* instance holds, the stored title, body, excerpt and modified_time of every
\* post are after the call what they were before it (the values of the last
\* save that wrote them).
C2_OnlyViewsWritten ==
    [][\A i \in Instances :
          increase_views(i) =>
             \A pk \in DOMAIN db :
                pk \in DOMAIN db' /\ SameContent(db'[pk], db[pk])]_vars

\* increase_views has just completed on an instance whose title and body are
\* stale: the stored ones are those of the other instance, which saved them
C2_Witness ==
    /\ last.op = "increase_views"
    /\ last.status = "saved"
    /\ LET i == last.i
           pk == inst[i].pk
       IN  /\ pk \in DOMAIN db
           /\ db[pk].views = inst[i].views
           /\ inst[i].body # db[pk].body
           /\ inst[i].title # db[pk].title
           /\ inst[i].modified_time # db[pk].modified_time
           /\ \E j \in DOMAIN inst \ {i} :
                 inst[j].pk = pk /\ SameContent(inst[j], db[pk])

\* C3: the stored excerpt of every post is the first 54 characters of the
\* tag-stripped rendering of its stored body.
C3_ExcerptMatchesBody ==
    \A pk \in DOMAIN db : db[pk].excerpt = Excerpt(db[pk].body)

\* C4: the stored excerpt of every post has at most 54 characters.
C4_ExcerptBounded ==
    \A pk \in DOMAIN db : Len(db[pk].excerpt) <= ExcerptLen

\* a save has just stored the excerpt of a body whose text is longer than 54
\* characters
C4_Witness ==
    /\ last.op = "save"
    /\ last.status = "saved"
    /\ \E pk \in DOMAIN db :
          /\ inst[last.i].pk = pk
          /\ Len(strip_tags(MdConvert(db[pk].body, FALSE))) > ExcerptLen
          /\ Len(db[pk].excerpt) = ExcerptLen

\* C5 as stated: every save call stamps the instance with the clock, and the
\* stored modified_time is the time of the last save that persisted the
\* record.
C5_StoredTimeOfLastSave ==
    [][\A i \in Instances :
          SaveCall(i) =>
             /\ inst'[i].modified_time = now
             /\ last'.status = "saved" =>
                   db'[inst[i].pk].modified_time = now]_vars

\* the step stores the modified_time column of post pk
WritesModifiedTime(pk) ==
    \/ \E i \in DOMAIN inst, uf \in UpdateFieldsArgs :
          /\ Save(i, uf)
          /\ inst[i].pk = pk
          /\ last'.status = "saved"
          /\ "modified_time" \in WrittenFields(uf)
    \/ /\ pk = nextPk
       /\ \E i \in Instances, t \in Titles, b \in Bodies,
             c \in Categories, u \in Users :
             CreatePost(i, t, b, c, u) /\ last'.status = "saved"

\* C5 as amended: every save call stamps the instance with the clock; a save
\* that writes the modified_time column stores the clock value, and no other
\* step (a save restricted to other columns, increase_views) changes the
\* stored modified_time.
C5_StoredTimeOfLastFullSave ==
    [][/\ \A i \in Instances : SaveCall(i) => inst'[i].modified_time = now
       /\ \A pk \in DOMAIN db' :
             IF WritesModifiedTime(pk)
             THEN db'[pk].modified_time = now
             ELSE pk \in DOMAIN db
                  /\ db'[pk].modified_time = db[pk].modified_time]_vars

\* increase_views has just persisted the record at a time later than the
\* stored modified_time, which it left alone
C5_Witness ==
    /\ last.op = "increase_views"
    /\ last.status = "saved"
    /\ LET pk == inst[last.i].pk
       IN  /\ pk \in DOMAIN db
           /\ inst[last.i].modified_time = now
           /\ db[pk].modified_time < now

\* C6: rich_content is computed at most once per instance: the first read
\* renders the body the instance holds then, and from then on the cached pair
\* stays and every read of toc or body_html returns its field, whatever
\* SetBody, save or increase_views did to the instance in between.
C6_ComputedOnce ==
    [][\A i \in DOMAIN inst :
          IF inst[i].rich_content = <<>>
          THEN (ReadCall(i) /\ last'.status = "ok") =>
                  inst'[i].rich_content = <<generate_rich_content(inst[i].body)>>
          ELSE /\ inst'[i].rich_content = inst[i].rich_content \/ Replaced(i)
               /\ TocCall(i) => last'.ret = inst[i].rich_content[1].toc
               /\ BodyHtmlCall(i) =>
                     last'.ret = inst[i].rich_content[1].content]_vars

\* a read has just returned a cached field that is no longer the rendering of
\* the instance's body, on an instance that was saved since
C6_Witness ==
    /\ last.op \in {"toc", "body_html"}
    /\ last.status = "ok"
    /\ LET self == inst[last.i]
       IN  /\ self.rich_content # <<>>
           /\ self.body \notin Pathological
           /\ self.rich_content[1] # generate_rich_content(self.body)
           /\ last.ret = self.rich_content[1][IF last.op = "toc"
                                              THEN "toc" ELSE "content"]
           /\ self.pk \in DOMAIN db
           /\ db[self.pk].body = self.body

\* C7: the first read of toc or body_html on a freshly loaded instance returns
\* the rendering of the body that instance loaded, whatever the other
\* instances of the post have cached.
C7_FreshReadRendersLoadedBody ==
    [][\A i \in DOMAIN inst :
          (inst[i].fresh /\ ReadCall(i) /\ last'.status = "ok") =>
             LET rc == generate_rich_content(inst[i].body) IN
             /\ inst'[i].rich_content = <<rc>>
             /\ last'.ret = (IF last'.op = "toc" THEN rc.toc ELSE rc.content)]_vars

\* an instance has just read the rendering of the stored body while another
\* instance of the same post holds a different cached rendering
C7_Witness ==
    /\ last.op \in {"toc", "body_html"}
    /\ last.status = "ok"
    /\ LET i == last.i
           pk == inst[i].pk
       IN  /\ pk \in DOMAIN db
           /\ inst[i].body = db[pk].body
           /\ inst[i].rich_content = <<generate_rich_content(db[pk].body)>>
           /\ \E j \in DOMAIN inst \ {i} :
                 /\ inst[j].pk = pk
                 /\ inst[j].rich_content # <<>>
                 /\ inst[j].rich_content # inst[i].rich_content

\* C8: every stored post references a category and an author that exist in
\* the store.
C8_ReferencesExist ==
    \A pk \in DOMAIN db :
       db[pk].category \in categories /\ db[pk].author \in users

\* the deletion of a category or author has just removed the posts that
\* referred to it and left another post in the store
C8_Witness ==
    /\ last.op \in {"delete_category", "delete_author"}
    /\ last.status = "cascaded"
    /\ DOMAIN db # {}
    /\ categories # Categories
    /\ users # Users

\* C9: no call ends with the converter's exception: a save of a post whose
\* body the converter fails on still completes.
C9_ConverterFailureCaught == last.status # "ConverterError"

\* C10: no increment is lost and the stored counter never decreases: every
\* completed increase_views raises the stored views of its post by one, and no
\* other step changes them.  (By induction over the run this is "the stored
\* views equals the number of completed increase_views calls".)
C10_EveryViewCounted ==
    [][\A pk \in (DOMAIN db) \cap (DOMAIN db') :
          IF \E i \in DOMAIN inst :
                increase_views(i) /\ inst[i].pk = pk /\ last'.status = "saved"
          THEN db'[pk].views = db[pk].views + 1
          ELSE db'[pk].views = db[pk].views]_vars
====
